---- MODULE Spec2Model ----
(***************************************************************************)
(* A model of python/gemini_adapter.py: a single-shot command line adapter *)
(* that reads a JSON request from standard input, validates it, joins the  *)
(* messages' contents into a prompt, awaits one call of the external       *)
(* GeminiClient, and writes one JSON object to stdout or stderr before it   *)
(* exits.                                                                   *)
(*                                                                         *)
(* Python and JSON values are tagged records: None/null is [k |-> "null"],  *)
(* a str is [k |-> "str", s |-> ...], an int is [k |-> "num", n |-> ...],   *)
(* a list is [k |-> "list", items |-> <<...>>] and a dict is                *)
(* [k |-> "obj", d |-> f] with f a function from the keys present.          *)
(* Text written to a stream is either [json |-> v], the JSON text that      *)
(* json.dumps makes of v, or [traceback |-> t], the interpreter's report of *)
(* an exception of type t that nothing caught.                              *)
(***************************************************************************)
EXTENDS Integers, Sequences, FiniteSets, TLC

\* The longest messages list the model enumerates.
MaxMessages == 3

VARIABLES
    importOk,        \* environment: whether gemini_webapi can be imported
    stdin,           \* environment: what standard input holds
    pc,              \* the position of the script
    params,          \* json.loads(input_data)
    accessed,        \* the keys of params read so far
    psid, psidts, model_requested, messages,
    prompt_parts, idx, prompt,
    clients,         \* GeminiClient constructions, with their arguments
    calls,           \* generate_content invocations, with their arguments
    outcome,         \* what the collaborator did, once it has answered
    result,          \* what call_gemini returned
    stdout, stderr,  \* what was written to each stream, in order
    exits            \* the exit statuses the process ended with, in order

vars == <<importOk, stdin, pc, params, accessed, psid, psidts, model_requested,
          messages, prompt_parts, idx, prompt, clients, calls, outcome, result,
          stdout, stderr, exits>>

----------------------------------------------------------------------------
(* Values *)

None == [k |-> "null"]
Str(s) == [k |-> "str", s |-> s]
Num(n) == [k |-> "num", n |-> n]
List(items) == [k |-> "list", items |-> items]
Obj(d) == [k |-> "obj", d |-> d]

\* A name not bound yet, and a key a dict does not hold.
Unset == [k |-> "unset"]
Absent == [k |-> "absent"]

\* The dict holding the keys of f whose value is not Absent.
MkObj(f) == Obj([key \in {x \in DOMAIN f : f[x] # Absent} |-> f[key]])

\* Sequences over S of length at most n.
SeqUpTo(S, n) == UNION {[1..m -> S] : m \in 0..n}

\* bool(v), as `if not v` and `v or None` evaluate it.
Truthy(v) ==
    CASE v.k = "null" -> FALSE
      [] v.k = "str"  -> v.s # ""
      [] v.k = "num"  -> v.n # 0
      [] v.k = "list" -> v.items # <<>>
      [] v.k = "obj"  -> DOMAIN v.d # {}

\* dict.get(key, default)
Get(obj, key, default) == IF key \in DOMAIN obj.d THEN obj.d[key] ELSE default

\* Whether v has a .get method: only a dict does.
HasGet(v) == v.k = "obj"

\* Whether `for msg in v` can start: an int and None are not iterable.
Iterable(v) == v.k \in {"list", "str", "obj"}

\* What `for msg in v` yields: a list's items, a str's characters, a dict's
\* keys.
Iter(v) ==
    IF v.k = "list" THEN v.items
    ELSE IF v.k = "str" THEN [i \in 1..Len(v.s) |-> Str(SubSeq(v.s, i, i))]
    ELSE CHOOSE q \in [1..Cardinality(DOMAIN v.d) -> {Str(x) : x \in DOMAIN v.d}] :
             \A x \in DOMAIN v.d : \E i \in DOMAIN q : q[i] = Str(x)

\* str(v) of a str or an int below ten.
str(v) ==
    CASE v.k = "str" -> v.s
      [] v.k = "num" -> <<"0", "1", "2", "3", "4", "5", "6", "7", "8", "9">>[v.n + 1]

\* "\n".join(parts)
RECURSIVE Join(_)
Join(parts) ==
    IF parts = <<>> THEN ""
    ELSE IF Len(parts) = 1 THEN parts[1]
    ELSE parts[1] \o "\n" \o Join(Tail(parts))

\* json.dumps(v), printed: the JSON text of v.
Dumps(v) == [json |-> v]

\* What the interpreter prints for an exception nothing catches.
Traceback(type) == [traceback |-> type]

----------------------------------------------------------------------------
(* The environment: standard input and the collaborator *)

PsidValues == {Absent, None, Str(""), Str("sid"), Num(0)}
PsidtsValues == {Absent, None, Str(""), Str("ts")}
ModelValues == {Absent, None, Str("gemini-pro")}
ContentValues == {Absent, None, Str(""), Str("a"), Str("b")}

\* An element of messages: a mapping, or something that is none.
MessageValues == {MkObj([content |-> c]) : c \in ContentValues} \cup {Num(5)}

MessagesValues ==
    {Absent, None, Str(""), Str("hi"), Num(0), Num(5), MkObj([content |-> Str("a")])}
        \cup {List(q) : q \in SeqUpTo(MessageValues, MaxMessages)}

\* The JSON documents standard input may hold.
Documents ==
    {None, Num(5), Str("sid"), List(<<>>)}
        \cup {MkObj([psid |-> p, psidts |-> ts, model |-> m, messages |-> ms]) :
                 p \in PsidValues, ts \in PsidtsValues, m \in ModelValues,
                 ms \in MessagesValues}

\* Standard input: a stream whose read raises, text json.loads rejects with a
\* diagnostic, or the text of a JSON document.
Payloads ==
    {[kind |-> "unreadable", type |-> "OSError", message |-> "Input/output error"],
     [kind |-> "malformed", diag |-> "Expecting value: line 1 column 1 (char 0)"],
     [kind |-> "malformed", diag |-> "Unterminated string starting at: line 1 column 10 (char 9)"]}
        \cup {[kind |-> "document", value |-> v] : v \in Documents}

\* Exceptions the collaborator raises (subclasses of Exception).
Exceptions ==
    {[type |-> "AuthError", message |-> "bad cookie"],
     [type |-> "TimeoutError", message |-> ""]}

\* Responses generate_content returns: a text, and a model attribute or none.
Responses ==
    {[text |-> t, model |-> m] : t \in {"hello", ""}, m \in {Absent, Str("gemini-2.0-flash")}}

----------------------------------------------------------------------------
(* The script *)

Init ==
    /\ importOk \in BOOLEAN
    /\ stdin \in Payloads
    /\ pc = "import"
    /\ params = Unset
    /\ accessed = {}
    /\ psid = Unset
    /\ psidts = Unset
    /\ model_requested = Unset
    /\ messages = Unset
    /\ prompt_parts = <<>>
    /\ idx = 1
    /\ prompt = Unset
    /\ clients = <<>>
    /\ calls = <<>>
    /\ outcome = Unset
    /\ result = Unset
    /\ stdout = <<>>
    /\ stderr = <<>>
    /\ exits = <<>>

\* The failure payload: {"success": false, "error": {"type": ..., "message": ...}}
Failure(type, message) ==
    [success |-> FALSE, error |-> [type |-> type, message |-> message]]

\* print(text, file=sys.stderr); sys.exit(code)
DieWith(text, code) ==
    /\ stderr' = Append(stderr, text)
    /\ exits' = Append(exits, code)
    /\ pc' = "exited"
    /\ UNCHANGED stdout

\* print(json.dumps(failure), file=sys.stderr); sys.exit(1)
FailWith(type, message) == DieWith(Dumps(Failure(type, message)), 1)

\* An exception nothing catches: the interpreter prints the traceback to
\* stderr and exits with status 1.
Uncaught(type) == DieWith(Traceback(type), 1)

\* from gemini_webapi import GeminiClient
Import ==
    /\ pc = "import"
    /\ IF importOk
         THEN /\ pc' = "read"
              /\ UNCHANGED <<stdout, stderr, exits>>
         ELSE FailWith("ImportError",
                       "Failed to import gemini_webapi. Make sure it's installed in the Python environment.")
    /\ UNCHANGED <<importOk, stdin, params, accessed, psid, psidts, model_requested,
                   messages, prompt_parts, idx, prompt, clients, calls, outcome, result>>

\* ReadInput with a decode error swallowed: the request is taken to be empty.
ReadInputLenient ==
    /\ pc = "read"
    /\ CASE stdin.kind = "unreadable" ->
              /\ FailWith(stdin.type, "Error reading stdin: " \o stdin.message)
              /\ UNCHANGED params
         [] stdin.kind = "malformed" ->
              /\ params' = Obj(<<>>)
              /\ pc' = "extract"
              /\ UNCHANGED <<stdout, stderr, exits>>
         [] stdin.kind = "document" ->
              /\ params' = stdin.value
              /\ pc' = "extract"
              /\ UNCHANGED <<stdout, stderr, exits>>
    /\ UNCHANGED <<importOk, stdin, accessed, psid, psidts, model_requested,
                   messages, prompt_parts, idx, prompt, clients, calls, outcome, result>>

\* input_data = sys.stdin.read(); params = json.loads(input_data)
ReadInput ==
    /\ pc = "read"
    /\ CASE stdin.kind = "unreadable" ->
              /\ FailWith(stdin.type, "Error reading stdin: " \o stdin.message)
              /\ UNCHANGED params
         [] stdin.kind = "malformed" ->
              /\ FailWith("JSONDecodeError", "Failed to decode stdin JSON: " \o stdin.diag)
              /\ UNCHANGED params
         [] stdin.kind = "document" ->
              /\ params' = stdin.value
              /\ pc' = "extract"
              /\ UNCHANGED <<stdout, stderr, exits>>
    /\ UNCHANGED <<importOk, stdin, accessed, psid, psidts, model_requested,
                   messages, prompt_parts, idx, prompt, clients, calls, outcome, result>>

\* psid = params.get('psid') ... messages = params.get('messages',)
ExtractParameters ==
    /\ pc = "extract"
    /\ IF HasGet(params)
         THEN /\ psid' = Get(params, "psid", None)
              /\ psidts' = Get(params, "psidts", None)
              /\ model_requested' = Get(params, "model", Str("unspecified"))
              /\ messages' = Get(params, "messages", None)
              /\ accessed' = {"psid", "psidts", "model", "messages"}
              /\ pc' = "check_psid"
              /\ UNCHANGED <<stdout, stderr, exits>>
         ELSE /\ Uncaught("AttributeError")
              /\ UNCHANGED <<psid, psidts, model_requested, messages, accessed>>
    /\ UNCHANGED <<importOk, stdin, params, prompt_parts, idx, prompt, clients,
                   calls, outcome, result>>

\* CheckPsid without its sys.exit(1): the error is printed and the script
\* runs on.
CheckPsidNoExit ==
    /\ pc = "check_psid"
    /\ pc' = "check_messages"
    /\ IF ~Truthy(psid)
         THEN /\ stderr' = Append(stderr, Dumps(Failure("ValueError",
                                      "Missing 'psid' in input parameters.")))
              /\ UNCHANGED <<stdout, exits>>
         ELSE UNCHANGED <<stdout, stderr, exits>>
    /\ UNCHANGED <<importOk, stdin, params, accessed, psid, psidts, model_requested,
                   messages, prompt_parts, idx, prompt, clients, calls, outcome, result>>

\* CheckPsid with the two presence checks in the other order: messages is
\* looked at before psid.
CheckPsidSwapped ==
    /\ pc = "check_psid"
    /\ IF ~Truthy(messages)
         THEN FailWith("ValueError", "Missing or empty 'messages' array in input parameters.")
         ELSE IF ~Truthy(psid)
         THEN FailWith("ValueError", "Missing 'psid' in input parameters.")
         ELSE /\ pc' = "check_messages"
              /\ UNCHANGED <<stdout, stderr, exits>>
    /\ UNCHANGED <<importOk, stdin, params, accessed, psid, psidts, model_requested,
                   messages, prompt_parts, idx, prompt, clients, calls, outcome, result>>

\* if not psid: ...
CheckPsid ==
    /\ pc = "check_psid"
    /\ IF ~Truthy(psid)
         THEN FailWith("ValueError", "Missing 'psid' in input parameters.")
         ELSE /\ pc' = "check_messages"
              /\ UNCHANGED <<stdout, stderr, exits>>
    /\ UNCHANGED <<importOk, stdin, params, accessed, psid, psidts, model_requested,
                   messages, prompt_parts, idx, prompt, clients, calls, outcome, result>>

\* if not messages: ...
CheckMessages ==
    /\ pc = "check_messages"
    /\ IF ~Truthy(messages)
         THEN FailWith("ValueError", "Missing or empty 'messages' array in input parameters.")
         ELSE /\ pc' = "loop"
              /\ UNCHANGED <<stdout, stderr, exits>>
    /\ UNCHANGED <<importOk, stdin, params, accessed, psid, psidts, model_requested,
                   messages, prompt_parts, idx, prompt, clients, calls, outcome, result>>

\* AppendContent without the test: a message without content adds an empty
\* part.
AppendContentAlways(parts, msg) ==
    IF Truthy(Get(msg, "content", None))
        THEN Append(parts, str(msg.d["content"]))
        ELSE Append(parts, "")

\* if msg.get('content'): prompt_parts.append(str(msg['content']))
AppendContent(parts, msg) ==
    IF Truthy(Get(msg, "content", None))
        THEN Append(parts, str(msg.d["content"]))
        ELSE parts

\* for msg in messages: one turn of the loop, or its end.
Loop ==
    /\ pc = "loop"
    /\ IF ~Iterable(messages)
         THEN /\ Uncaught("TypeError")
              /\ UNCHANGED <<prompt_parts, idx>>
         ELSE IF idx > Len(Iter(messages))
         THEN /\ pc' = "join"
              /\ UNCHANGED <<prompt_parts, idx, stdout, stderr, exits>>
         ELSE IF ~HasGet(Iter(messages)[idx])
         THEN /\ Uncaught("AttributeError")
              /\ UNCHANGED <<prompt_parts, idx>>
         ELSE /\ prompt_parts' = AppendContent(prompt_parts, Iter(messages)[idx])
              /\ idx' = idx + 1
              /\ UNCHANGED <<pc, stdout, stderr, exits>>
    /\ UNCHANGED <<importOk, stdin, params, accessed, psid, psidts, model_requested,
                   messages, prompt, clients, calls, outcome, result>>

\* BuildPrompt without its sys.exit(1): the error is printed and the script
\* runs on to the call.
BuildPromptNoExit ==
    /\ pc = "join"
    /\ prompt' = Str(Join(prompt_parts))
    /\ pc' = "main"
    /\ IF ~Truthy(prompt')
         THEN /\ stderr' = Append(stderr, Dumps(Failure("ValueError",
                                      "Could not construct a non-empty prompt from messages.")))
              /\ UNCHANGED <<stdout, exits>>
         ELSE UNCHANGED <<stdout, stderr, exits>>
    /\ UNCHANGED <<importOk, stdin, params, accessed, psid, psidts, model_requested,
                   messages, prompt_parts, idx, clients, calls, outcome, result>>

\* prompt = "\n".join(prompt_parts); if not prompt: ...
BuildPrompt ==
    /\ pc = "join"
    /\ prompt' = Str(Join(prompt_parts))
    /\ IF ~Truthy(prompt')
         THEN FailWith("ValueError", "Could not construct a non-empty prompt from messages.")
         ELSE /\ pc' = "main"
              /\ UNCHANGED <<stdout, stderr, exits>>
    /\ UNCHANGED <<importOk, stdin, params, accessed, psid, psidts, model_requested,
                   messages, prompt_parts, idx, clients, calls, outcome, result>>

\* OrNone without the `or None`: an empty psidts is passed on as it is.
OrNoneDropped(v) == v

\* secure_psidts or None
OrNone(v) == IF Truthy(v) THEN v ELSE None

\* ModelUsed that never looks at the response.
ModelUsedRequested(response, model_name) == model_name

\* getattr(response, 'model', model_name)
ModelUsed(response, model_name) ==
    IF response.model # Absent THEN response.model ELSE model_name

\* The dict call_gemini returns when generate_content returned.
Success(response, model_name) ==
    [success |-> TRUE, text |-> response.text, model_used |-> ModelUsed(response, model_name)]

\* Caught reporting the class it catches instead of the exception's own.
CaughtGeneric(e) == Failure("Exception", e.message)

\* The dict call_gemini returns from `except Exception as e`.
Caught(e) == Failure(e.type, e.message)

\* asyncio.run(call_gemini(psid, psidts, prompt, model_requested)), up to the
\* await: GeminiClient(...) raises, or generate_content is invoked.
CallGemini ==
    /\ pc = "main"
    /\ clients' = Append(clients, [Secure_1PSID |-> psid, Secure_1PSIDTS |-> OrNone(psidts)])
    /\ \/ /\ calls' = Append(calls, [client |-> clients'[Len(clients')],
                                      prompt |-> prompt, model |-> model_requested])
          /\ pc' = "awaiting"
          /\ UNCHANGED <<outcome, result>>
       \/ \E e \in Exceptions :
             /\ outcome' = [kind |-> "raised", by |-> "GeminiClient", exc |-> e]
             /\ result' = Caught(e)
             /\ pc' = "output"
             /\ UNCHANGED calls
    /\ UNCHANGED <<importOk, stdin, params, accessed, psid, psidts, model_requested,
                   messages, prompt_parts, idx, prompt, stdout, stderr, exits>>

\* response = await client.generate_content(...): the collaborator answers,
\* with a response or with an exception, and call_gemini returns.
Resume ==
    /\ pc = "awaiting"
    /\ \/ \E r \in Responses :
             /\ outcome' = [kind |-> "returned", response |-> r]
             /\ result' = Success(r, calls[Len(calls)].model)
          \/ \E e \in Exceptions :
             /\ outcome' = [kind |-> "raised", by |-> "generate_content", exc |-> e]
             /\ result' = Caught(e)
    /\ pc' = "output"
    /\ UNCHANGED <<importOk, stdin, params, accessed, psid, psidts, model_requested,
                   messages, prompt_parts, idx, prompt, clients, calls, stdout, stderr,
                   exits>>

\* ExitStatus that ends every run with success.
ExitStatusZero(res) == 0

\* The stream and the exit status of a result: result.get("success") decides.
Stream(res) == IF res.success THEN "stdout" ELSE "stderr"
ExitStatus(res) == IF res.success THEN 0 ELSE 1

\* print(json.dumps(result)[, file=sys.stderr]); sys.exit(...)
Output ==
    /\ pc = "output"
    /\ IF Stream(result) = "stdout"
         THEN /\ stdout' = Append(stdout, Dumps(result))
              /\ UNCHANGED stderr
         ELSE /\ stderr' = Append(stderr, Dumps(result))
              /\ UNCHANGED stdout
    /\ exits' = Append(exits, ExitStatus(result))
    /\ pc' = "exited"
    /\ UNCHANGED <<importOk, stdin, params, accessed, psid, psidts, model_requested,
                   messages, prompt_parts, idx, prompt, clients, calls, outcome, result>>

Next ==
    \/ Import
    \/ ReadInput
    \/ ExtractParameters
    \/ CheckPsid
    \/ CheckMessages
    \/ Loop
    \/ BuildPrompt
    \/ CallGemini
    \/ Resume
    \/ Output

Spec == Init /\ [][Next]_vars

\* The script runs on while it can, and the collaborator answers every call.
FairSpec == Spec /\ WF_vars(Next)

----------------------------------------------------------------------------
(* What the claims speak of *)

Exited == pc = "exited"

\* What was written to both streams, stdout first.
Written == stdout \o stderr

IsJSON(w) == "json" \in DOMAIN w

\* {"success": false, "error": {"type": ..., "message": ...}}
IsFailureObject(w) ==
    /\ IsJSON(w)
    /\ DOMAIN w.json = {"success", "error"}
    /\ w.json.success = FALSE
    /\ DOMAIN w.json.error = {"type", "message"}

\* {"success": true, "text": ..., "model_used": ...}
IsSuccessObject(w) ==
    /\ IsJSON(w)
    /\ DOMAIN w.json = {"success", "text", "model_used"}
    /\ w.json.success = TRUE

\* Standard input holds a JSON object.
IsRequest == stdin.kind = "document" /\ stdin.value.k = "obj"

\* The request's field, Absent when the request does not carry it.
Field(key) == IF key \in DOMAIN stdin.value.d THEN stdin.value.d[key] ELSE Absent

\* Absent, null, or empty: "", 0, [] and {}.
Missing(v) ==
    v \in {Absent, None, Str(""), Num(0), List(<<>>), Obj(<<>>)}

\* A sequence of mappings.
IsMessageList(v) ==
    /\ v.k = "list"
    /\ \A i \in DOMAIN v.items : v.items[i].k = "obj"

\* A message whose content is present, not null and not the empty string.
HasContent(msg) ==
    /\ "content" \in DOMAIN msg.d
    /\ msg.d["content"] # None
    /\ msg.d["content"] # Str("")

\* The contents of the messages that have one, in input order.
Contents(items) ==
    LET kept == SelectSeq(items, HasContent)
    IN  [i \in DOMAIN kept |-> kept[i].d["content"].s]

\* The parts with one newline between consecutive parts, built from the left.
RECURSIVE Lines(_)
Lines(parts) ==
    IF Len(parts) = 0 THEN ""
    ELSE IF Len(parts) = 1 THEN parts[1]
    ELSE Lines(SubSeq(parts, 1, Len(parts) - 1)) \o "\n" \o parts[Len(parts)]

\* The prompt the request's messages stand for.
ExpectedPrompt == Lines(Contents(Field("messages").items))

\* A well-formed request with non-empty psid and non-empty messages.
WellFormed ==
    /\ IsRequest
    /\ ~Missing(Field("psid"))
    /\ IsMessageList(Field("messages"))
    /\ Field("messages").items # <<>>

----------------------------------------------------------------------------
(* The claims *)

\* C1: for every well-formed request with non-empty psid and non-empty
\* messages, whatever the collaborator answers, the process terminates having
\* written exactly one JSON object to exactly one of stdout and stderr; at no
\* point has it written to both.
C1_OneObjectOneStream ==
    /\ [](WellFormed => (stdout = <<>> \/ stderr = <<>>))
    /\ [](WellFormed /\ Exited => (Len(Written) = 1 /\ IsJSON(Written[1])))
    /\ (WellFormed ~> Exited)

C1_Witness ==
    /\ WellFormed
    /\ Exited
    /\ outcome # Unset
    /\ outcome.kind = "raised"
    /\ Len(stderr) = 1

\* C2: every run that does not succeed ends with a single JSON object
\* {success: false, error: {type, message}} on stderr and a non-zero exit
\* code, whatever standard input held.
C2_FailureIsAlwaysJSON ==
    (Exited /\ exits # <<0>>) =>
        /\ Len(stderr) = 1
        /\ IsFailureObject(stderr[1])
        /\ Len(exits) = 1
        /\ exits[1] # 0

\* C3: the process exits with code 0 exactly when it wrote a success object
\* to stdout and nothing to stderr; otherwise it exits with code 1 having
\* written nothing to stdout; no other exit code occurs.
C3_VariantDecidesStreamAndCode ==
    Exited =>
        /\ Len(exits) = 1
        /\ exits[1] \in {0, 1}
        /\ exits[1] = 0 <=>
              (Len(stdout) = 1 /\ IsSuccessObject(stdout[1]) /\ stderr = <<>>)
        /\ exits[1] # 0 => (exits[1] = 1 /\ stdout = <<>>)

C3_Witness ==
    /\ Exited
    /\ exits = <<0>>
    /\ Len(stdout) = 1
    /\ IsSuccessObject(stdout[1])

\* The request fails validation: psid absent or falsy, messages absent or
\* empty, or the prompt joined from the contents empty.
Invalid ==
    /\ IsRequest
    /\ \/ Missing(Field("psid"))
       \/ Missing(Field("messages"))
       \/ IsMessageList(Field("messages")) /\ ExpectedPrompt = ""

\* C4: a request that fails validation never reaches the collaborator
\* (neither GeminiClient nor generate_content is invoked), and the process
\* ends with exit code 1.
C4_ValidationBeforeCall ==
    /\ [](Invalid => (clients = <<>> /\ calls = <<>>))
    /\ (Invalid ~> (Exited /\ exits = <<1>>))

C4_Witness ==
    /\ importOk
    /\ Invalid
    /\ Exited
    /\ prompt = Str("")
    /\ ~Missing(Field("psid"))
    /\ ~Missing(Field("messages"))
    /\ Len(Field("messages").items) = MaxMessages
    /\ exits = <<1>>
    /\ clients = <<>>

\* C5: the prompt passed to the collaborator is the contents of exactly the
\* messages whose content is present and non-empty/non-null, in input order,
\* with a single newline between consecutive parts.
C5_PromptConstruction ==
    \A i \in DOMAIN calls :
        /\ IsMessageList(Field("messages"))
        /\ calls[i].prompt = Str(ExpectedPrompt)

C5_Witness ==
    /\ calls # <<>>
    /\ Field("messages") = List(<<MkObj([content |-> Str("a")]),
                                  MkObj([content |-> Absent]),
                                  MkObj([content |-> Str("b")])>>)
    /\ calls[1].prompt = Str("a\nb")

\* C6: when the collaborator raises, stderr holds exactly the failure object
\* carrying the exception's type name and message verbatim, stdout holds
\* nothing, and the exit code is 1.
C6_ExceptionPassedThrough ==
    (Exited /\ outcome # Unset /\ outcome.kind = "raised") =>
        /\ stderr = <<Dumps([success |-> FALSE,
                             error |-> [type |-> outcome.exc.type,
                                        message |-> outcome.exc.message]])>>
        /\ stdout = <<>>
        /\ exits = <<1>>

C6_Witness ==
    /\ Exited
    /\ outcome # Unset
    /\ outcome.kind = "raised"
    /\ outcome.by = "generate_content"
    /\ outcome.exc = [type |-> "AuthError", message |-> "bad cookie"]
    /\ stderr = <<Dumps([success |-> FALSE,
                         error |-> [type |-> "AuthError", message |-> "bad cookie"]])>>

\* The model the request asks for: "unspecified" when it carries no model.
RequestedModel ==
    IF Field("model") = Absent THEN Str("unspecified") ELSE Field("model")

\* C7: when the collaborator returns a response, stdout holds exactly
\* {success: true, text, model_used} with the response's text and the model
\* the response reports, or the requested model when it reports none, and
\* the exit code is 0.
C7_SuccessPayload ==
    (Exited /\ outcome # Unset /\ outcome.kind = "returned") =>
        /\ stdout = <<Dumps([success |-> TRUE,
                             text |-> outcome.response.text,
                             model_used |-> IF outcome.response.model = Absent
                                               THEN RequestedModel
                                               ELSE outcome.response.model])>>
        /\ stderr = <<>>
        /\ exits = <<0>>

C7_Witness ==
    /\ Exited
    /\ outcome # Unset
    /\ outcome.kind = "returned"
    /\ outcome.response = [text |-> "hello", model |-> Absent]
    /\ Field("model") = Str("gemini-pro")
    /\ stdout = <<Dumps([success |-> TRUE, text |-> "hello",
                         model_used |-> Str("gemini-pro")])>>

\* C8: text that is not valid JSON ends the process with a JSONDecodeError
\* failure on stderr and exit code 1, before any request field is read and
\* before any validation check or collaborator call.
C8_DecodeErrorFirst ==
    (importOk /\ stdin.kind = "malformed") =>
        /\ pc \in {"import", "read", "exited"}
        /\ accessed = {}
        /\ psid = Unset /\ psidts = Unset /\ model_requested = Unset /\ messages = Unset
        /\ clients = <<>> /\ calls = <<>>
        /\ Exited =>
              /\ Len(stderr) = 1
              /\ IsFailureObject(stderr[1])
              /\ stderr[1].json.error.type = "JSONDecodeError"
              /\ stdout = <<>>
              /\ exits = <<1>>

C8_Witness ==
    /\ importOk
    /\ stdin.kind = "malformed"
    /\ Exited
    /\ stderr[1].json.error.type = "JSONDecodeError"

\* The single failure object on stderr is a ValueError with this message.
ValueErrorIs(message) ==
    /\ stderr = <<Dumps([success |-> FALSE,
                         error |-> [type |-> "ValueError", message |-> message]])>>
    /\ stdout = <<>>
    /\ exits = <<1>>

\* C9: validation failures are ValueErrors whose message is that of the first
\* failing check in the order psid, messages, prompt.
C9_FirstFailingCheck ==
    (importOk /\ IsRequest /\ Exited) =>
        /\ Missing(Field("psid")) =>
              ValueErrorIs("Missing 'psid' in input parameters.")
        /\ (~Missing(Field("psid")) /\ Missing(Field("messages"))) =>
              ValueErrorIs("Missing or empty 'messages' array in input parameters.")
        /\ (/\ ~Missing(Field("psid"))
            /\ IsMessageList(Field("messages"))
            /\ Field("messages").items # <<>>
            /\ \A i \in DOMAIN Field("messages").items :
                   ~HasContent(Field("messages").items[i])) =>
              ValueErrorIs("Could not construct a non-empty prompt from messages.")

C9_Witness ==
    /\ importOk
    /\ IsRequest
    /\ Exited
    /\ ~Missing(Field("psid"))
    /\ Field("messages") = List(<<Obj(<<>>)>>)
    /\ ValueErrorIs("Could not construct a non-empty prompt from messages.")

\* C10: generate_content is invoked at most once, and then with the request's
\* psid, its psidts or no value when psidts is absent or an empty string, the
\* built prompt, and the request's model or "unspecified".
C10_OneCallWithArguments ==
    /\ Len(clients) <= 1
    /\ Len(calls) <= 1
    /\ \A i \in DOMAIN calls :
          /\ calls[i].client.Secure_1PSID = Field("psid")
          /\ calls[i].client.Secure_1PSIDTS =
                IF Field("psidts") \in {Absent, Str("")} THEN None ELSE Field("psidts")
          /\ calls[i].prompt = prompt
          /\ calls[i].model = RequestedModel

C10_Witness ==
    /\ Exited
    /\ Len(calls) = 1
    /\ Field("psidts") = Str("")
    /\ Field("model") = Absent
    /\ calls[1].client.Secure_1PSIDTS = None
    /\ calls[1].model = Str("unspecified")
    /\ outcome.kind = "raised"

====
